---- MODULE Spec2Model ----
(***************************************************************************)
(* State-machine model of scripts/compute.py: the CSV readers, the         *)
(* parameter resolution of the profiler adapter, the pickle caches of      *)
(* profiles and statistics, the statistics reducer and the all-to-all      *)
(* batch loop.  The routing engine (MultiObjectivePseudoCSAProfiler) and   *)
(* the profile analyzer of gtfspy are external: an engine run yields one   *)
(* of a bounded set of outcomes, chosen nondeterministically.              *)
(***************************************************************************)
EXTENDS Integers, Sequences, FiniteSets, TLC

VARIABLES
    eventsFile,     \* rows of HELSINKI_TRANSIT_CONNECTIONS_FNAME, header first
    transfersFile,  \* rows of main.day.transfers.csv, header first
    profileFiles,   \* RESULTS_DIRECTORY/node_profile_<targets>.pickle
    statsFiles,     \* RESULTS_DIRECTORY/node_profile_statistics_<targets>.pickle
    batchFiles,     \* RESULTS_DIRECTORY/all_to_all_stats/all_to_all_stats_target_<t>.pkl
    ret,            \* the last top-level call: its arguments and what it returned
    prev,           \* the top-level call before that one
    batch           \* locals of compute_all_to_all_profile_statistics_with_defaults

vars == <<eventsFile, transfersFile, profileFiles, statsFiles, batchFiles, ret, prev, batch>>

-----------------------------------------------------------------------------
(* Python values.  None is the empty tuple and a value v that may be None  *)
(* is the 1-tuple <<v>>, so that "x is None" is a comparison TLC can make. *)

None == <<>>
Some(v) == <<v>>
Val(o) == o[1]

(* A CSV field is text.  int(text) yields the number a literal denotes and *)
(* raises ValueError on anything else.                                     *)
Lit(n) == [lit |-> TRUE, n |-> n]
Junk == [lit |-> FALSE, n |-> 0]
IsIntText(f) == f.lit
int(f) == f.n

\* The one element of a singleton.  Only({F(x) : x \in {e}}) is F(e) with e
\* worked out once.
Only(S) == CHOOSE x \in S : TRUE

SeqsUpTo(S, n) == UNION {[1..k -> S] : k \in 0..n}
Range(s) == {s[i] : i \in DOMAIN s}

-----------------------------------------------------------------------------
(* Bounds of the model. *)

MaxEventRows == 3
MaxTransferRows == 2
MaxCalls == 2

-----------------------------------------------------------------------------
(* settings.py *)

ROUTING_START_TIME_DEP == 0
ROUTING_END_TIME_DEP == 1000

-----------------------------------------------------------------------------
(* read_connections_csv *)

from_node_index == 0
to_node_index == 1
dep_time_index == 2
arr_time_index == 3
trip_I_index == 5
seq_index == 6
d_walk_index == 3

Connection(departure_stop, arrival_stop, departure_time, arrival_time, trip_id, seq) ==
    [departure_stop |-> departure_stop, arrival_stop |-> arrival_stop,
     departure_time |-> departure_time, arrival_time |-> arrival_time,
     trip_id |-> trip_id, seq |-> seq]

\* "for _row in reader: break": the first row, if there is one, is consumed.
SkipHeader(rows) == IF rows = <<>> THEN rows ELSE Tail(rows)

\* sorted(connections, key=lambda conn: -conn.departure_time): a stable sort,
\* here by insertion behind every element whose key is not larger.
RECURSIVE InsertByKey(_, _)
InsertByKey(sortedSeq, conn) ==
    IF sortedSeq = <<>> THEN <<conn>>
    ELSE IF -Head(sortedSeq).departure_time <= -conn.departure_time
         THEN <<Head(sortedSeq)>> \o InsertByKey(Tail(sortedSeq), conn)
         ELSE <<conn>> \o sortedSeq

RECURSIVE SortByDeparture(_, _)
SortByDeparture(connections, acc) ==
    IF connections = <<>> THEN acc
    ELSE Only({SortByDeparture(Tail(connections), acc1) :
                   acc1 \in {InsertByKey(acc, Head(connections))}})

sorted_connections(connections) == SortByDeparture(connections, <<>>)

\* The condition of line 105.
InWindowOpenEnd(dep_time, routing_start_time_dep, routing_end_time_dep) ==
    routing_start_time_dep <= dep_time /\ dep_time < routing_end_time_dep
InWindow(dep_time, routing_start_time_dep, routing_end_time_dep) ==
    routing_start_time_dep <= dep_time /\ dep_time <= routing_end_time_dep

\* A loop that converts every consumed field of every record.
RECURSIVE ReadEventRowsStrict(_, _, _, _)
ReadEventRowsStrict(rows, routing_start_time_dep, routing_end_time_dep, connections) ==
    IF rows = <<>> THEN [status |-> "ok", connections |-> connections]
    ELSE IF \E k \in {from_node_index, to_node_index, dep_time_index, arr_time_index,
                      trip_I_index, seq_index} : ~IsIntText(Head(rows)[k + 1])
    THEN [status |-> "ValueError", connections |-> <<>>]
    ELSE IF InWindow(int(Head(rows)[dep_time_index + 1]), routing_start_time_dep,
                     routing_end_time_dep)
    THEN ReadEventRowsStrict(Tail(rows), routing_start_time_dep, routing_end_time_dep,
             Append(connections,
                 Connection(int(Head(rows)[from_node_index + 1]), int(Head(rows)[to_node_index + 1]),
                            int(Head(rows)[dep_time_index + 1]), int(Head(rows)[arr_time_index + 1]),
                            int(Head(rows)[trip_I_index + 1]), int(Head(rows)[seq_index + 1]))))
    ELSE ReadEventRowsStrict(Tail(rows), routing_start_time_dep, routing_end_time_dep, connections)

\* The loop of lines 103-108; a ValueError of int() leaves it at once.
RECURSIVE ReadEventRows(_, _, _, _)
ReadEventRows(rows, routing_start_time_dep, routing_end_time_dep, connections) ==
    IF rows = <<>> THEN [status |-> "ok", connections |-> connections]
    ELSE LET row == Head(rows) IN
         IF ~IsIntText(row[dep_time_index + 1])
         THEN [status |-> "ValueError", connections |-> <<>>]
         ELSE IF InWindow(int(row[dep_time_index + 1]), routing_start_time_dep, routing_end_time_dep)
         THEN IF \E k \in {from_node_index, to_node_index, arr_time_index, trip_I_index, seq_index} :
                     ~IsIntText(row[k + 1])
              THEN [status |-> "ValueError", connections |-> <<>>]
              ELSE Only({ReadEventRows(Tail(rows), routing_start_time_dep,
                                       routing_end_time_dep, connections1) :
                       connections1 \in {Append(connections,
                           Connection(int(row[from_node_index + 1]), int(row[to_node_index + 1]),
                                      int(row[dep_time_index + 1]), int(row[arr_time_index + 1]),
                                      int(row[trip_I_index + 1]), int(row[seq_index + 1])))}})
         ELSE ReadEventRows(Tail(rows), routing_start_time_dep, routing_end_time_dep, connections)

read_connections_csv(events, routing_start_time_dep, routing_end_time_dep) ==
    Only({IF r.status = "ok"
          THEN [status |-> "ok", connections |-> sorted_connections(r.connections)]
          ELSE r :
            r \in {ReadEventRows(SkipHeader(events), routing_start_time_dep,
                                 routing_end_time_dep, <<>>)}})

-----------------------------------------------------------------------------
(* read_transfers_csv: a networkx.Graph is its node set and its undirected *)
(* edges, an edge being its set of end points and its attribute d_walk.    *)

EmptyGraph == [nodes |-> {}, edges |-> {}]

\* Graph.add_edge(u, v, {"d_walk": w}): an edge already there keeps its place
\* and takes the new attribute.
add_edge(net, u, v, w) ==
    [nodes |-> net.nodes \cup {u, v},
     edges |-> {e \in net.edges : e.ends # {u, v}} \cup {[ends |-> {u, v}, d_walk |-> w]}]

\* The condition of line 137.
WithinWalkStrict(d_walk, max_walk_distance) == d_walk < max_walk_distance
WithinWalk(d_walk, max_walk_distance) == d_walk <= max_walk_distance

RECURSIVE ReadTransferRows(_, _, _)
ReadTransferRows(rows, max_walk_distance, net) ==
    IF rows = <<>> THEN [status |-> "ok", net |-> net]
    ELSE LET row == Head(rows) IN
         IF ~IsIntText(row[d_walk_index + 1])
         THEN [status |-> "ValueError", net |-> EmptyGraph]
         ELSE IF WithinWalk(int(row[d_walk_index + 1]), max_walk_distance)
         THEN IF ~IsIntText(row[from_node_index + 1]) \/ ~IsIntText(row[to_node_index + 1])
              THEN [status |-> "ValueError", net |-> EmptyGraph]
              ELSE Only({ReadTransferRows(Tail(rows), max_walk_distance, net1) :
                       net1 \in {add_edge(net, int(row[from_node_index + 1]),
                                          int(row[to_node_index + 1]), int(row[d_walk_index + 1]))}})
         ELSE ReadTransferRows(Tail(rows), max_walk_distance, net)

read_transfers_csv(transfers, max_walk_distance) ==
    ReadTransferRows(SkipHeader(transfers), max_walk_distance, EmptyGraph)

-----------------------------------------------------------------------------
(* The statistics reducer.  The node table lists the stops 1..NumStops in  *)
(* this order.  A StopProfile is opaque; what the analyzer measures of it  *)
(* is all the reducer sees, so a profile is named after the case it stands *)
(* for and the analyzer is the table Measure.  A float is modelled by its  *)
(* class: negative, zero or positive finite, either infinity, NaN.         *)

NumStops == 3

Stops == 1..NumStops
nodes_stop_I == [i \in 1..NumStops |-> i]

profile_observable_names == <<"mean_trip_duration", "max_n_boardings">>

Values == {"neg", "zero", "pos", "+inf", "-inf", "nan", "None"}

ProfileKinds == {"empty", "target", "reachable", "undefined", "negative", "neginf", "unset"}

\* NodeProfileMultiObjective() followed by finalize(): no journey found.
EmptyProfile == "empty"

\* method(profile_analyzer) of NodeProfileAnalyzerTimeAndVehLegs.
Measure(profile, observable_name) ==
    CASE profile = "empty"     -> IF observable_name = "mean_trip_duration" THEN "+inf" ELSE "nan"
      [] profile = "target"    -> "zero"
      [] profile = "reachable" -> "pos"
      [] profile = "undefined" -> IF observable_name = "mean_trip_duration" THEN "pos" ELSE "nan"
      [] profile = "negative"  -> IF observable_name = "mean_trip_duration" THEN "pos" ELSE "neg"
      [] profile = "neginf"    -> IF observable_name = "mean_trip_duration" THEN "-inf" ELSE "pos"
      [] profile = "unset"     -> IF observable_name = "mean_trip_duration" THEN "pos" ELSE "None"

\* numpy.isnan, numpy.isinf and (array >= 0) on a one-element array.
isnan(v) == v = "nan"
isinf(v) == v \in {"+inf", "-inf"}
is_not_negative(v) == v \in {"zero", "pos", "+inf"}

AssertNothing(v) == IF v = "None" THEN "TypeError" ELSE "ok"

\* numpy.array([None]) has dtype object, on which numpy.isnan raises
\* TypeError; otherwise the assert of line 315 decides.
_assert_results_are_positive_or_infs_or_nans(v) ==
    IF v = "None" THEN "TypeError"
    ELSE IF isnan(v) \/ isinf(v) \/ is_not_negative(v) THEN "ok"
    ELSE "AssertionError"

\* Lines 280-284: profile_data[stop_I], or on KeyError a finalized empty profile.
ProfileOfUnfinalized(profile_data, stop_I) ==
    IF stop_I \in DOMAIN profile_data THEN profile_data[stop_I] ELSE "target"
ProfileOf(profile_data, stop_I) ==
    IF stop_I \in DOMAIN profile_data THEN profile_data[stop_I] ELSE EmptyProfile

EmptyTable == [name \in Range(profile_observable_names) |-> <<>>]

\* The loops of lines 279-292, flattened: step k handles observable
\* ((k-1) % n) + 1 of stop ((k-1) \div n) + 1.  An exception ends the
\* reduction without a table; what was printed before stays printed.
\* A loop that puts each value in front of its list.
RECURSIVE ReduceFromPrepending(_, _, _, _)
ReduceFromPrepending(profile_data, k, table, log) ==
    IF k > NumStops * Len(profile_observable_names)
    THEN [status |-> "ok", table |-> table, log |-> log]
    ELSE Only({IF _assert_results_are_positive_or_infs_or_nans(observable_value) # "ok"
               THEN [status |-> _assert_results_are_positive_or_infs_or_nans(observable_value),
                     table |-> EmptyTable, log |-> log]
               ELSE ReduceFromPrepending(profile_data, k + 1,
                        [table EXCEPT ![observable_name] = <<observable_value>> \o @], log) :
                 observable_name \in
                     {profile_observable_names[((k - 1) % Len(profile_observable_names)) + 1]},
                 observable_value \in
                     {Measure(ProfileOf(profile_data,
                                        nodes_stop_I[((k - 1) \div Len(profile_observable_names)) + 1]),
                              profile_observable_names[((k - 1) % Len(profile_observable_names)) + 1])}})

RECURSIVE ReduceFrom(_, _, _, _)
ReduceFrom(profile_data, k, table, log) ==
    LET n == Len(profile_observable_names) IN
    IF k > NumStops * n THEN [status |-> "ok", table |-> table, log |-> log]
    ELSE LET stop_I == nodes_stop_I[((k - 1) \div n) + 1]
             observable_name == profile_observable_names[((k - 1) % n) + 1]
             observable_value == Measure(ProfileOf(profile_data, stop_I), observable_name)
             log1 == IF observable_value = "None"
                     THEN Append(log, <<observable_name, stop_I>>) ELSE log
             checked == _assert_results_are_positive_or_infs_or_nans(observable_value)
         IN  IF checked # "ok"
             THEN [status |-> checked, table |-> EmptyTable, log |-> log1]
             ELSE Only({ReduceFrom(profile_data, k + 1, table1, log2) :
                      table1 \in {[table EXCEPT ![observable_name] = Append(@, observable_value)]},
                      log2 \in {log1}})

__compute_profile_stats_from_profiles(profile_data) ==
    ReduceFrom(profile_data, 1, EmptyTable, <<>>)

-----------------------------------------------------------------------------
(* The profiler adapter.  A parameter bag is a function from the names of  *)
(* the options it holds; the two window options may hold None.  What is    *)
(* printed is a sequence of lines.                                         *)

Line(text) == [text |-> text]
ParamsLine(params) == [text |-> "params", params |-> params]

Put(params, key, value) == (key :> value) @@ params

MaxWalkDistanceDefault == 1000
TransferMarginDefault == 180
\* 70 / 60.0, kept as the ratio.
WalkingSpeedDefault == <<70, 60>>

\* Lines 158-161: filled when missing or None; nothing is printed.
FillWindow(params) ==
    Only({IF "routing_end_time_dep" \notin DOMAIN p1 \/ p1["routing_end_time_dep"] = None
          THEN Put(p1, "routing_end_time_dep", Some(ROUTING_END_TIME_DEP))
          ELSE p1 :
            p1 \in {IF "routing_start_time_dep" \notin DOMAIN params
                       \/ params["routing_start_time_dep"] = None
                    THEN Put(params, "routing_start_time_dep", Some(ROUTING_START_TIME_DEP))
                    ELSE params}})

\* One "if key not in params: print(...); params[key] = default".
FillDefault(st, key, value, text) ==
    Only({IF key \notin DOMAIN s.params
          THEN [params |-> Put(s.params, key, value), log |-> Append(s.log, Line(text))]
          ELSE s :
            s \in {st}})

\* Lines 171-173.
FillMaxWalkSilently(params) ==
    [params |-> IF "max_walk_distance" \in DOMAIN params THEN params
                ELSE Put(params, "max_walk_distance", MaxWalkDistanceDefault),
     log |-> <<>>]
FillMaxWalk(params) ==
    FillDefault([params |-> params, log |-> <<>>], "max_walk_distance", MaxWalkDistanceDefault,
                "resetting max walk distance to default (1000m)")

\* Lines 175-186.
FillRest(st) ==
    FillDefault(
        FillDefault(
            FillDefault(
                FillDefault(st, "track_time", TRUE, "setting time tracking on"),
                "track_vehicle_legs", TRUE, "setting vehicle boarding counting on"),
            "transfer_margin", TransferMarginDefault, "resetting transfer margin to 180 seconds"),
        "walking_speed", WalkingSpeedDefault, "resetting walking speed to default value of 70m/60s:")

\* MultiObjectivePseudoCSAProfiler(...): the engine as constructed, no profiles yet.
MultiObjectivePseudoCSAProfiler(connections, targets, walk_network, walk_speed, track_vehicle_legs, track_time, transfer_margin) ==
    [connections |-> connections, targets |-> targets, walk_network |-> walk_network,
     walk_speed |-> walk_speed, track_vehicle_legs |-> track_vehicle_legs,
     track_time |-> track_time, transfer_margin |-> transfer_margin,
     stop_profiles |-> <<>>]

\* csp.reset(targets) and csp.run(); a run leaves the profiles the engine found.
\* A reset that clears the profiles and keeps the old targets.
csp_reset_keeping_targets(csp, targets) == [csp EXCEPT !.stop_profiles = <<>>]
csp_reset(csp, targets) == [csp EXCEPT !.targets = targets, !.stop_profiles = <<>>]
csp_run(csp, outcome) == [csp EXCEPT !.stop_profiles = outcome.stop_profiles]

NoCsp == [status |-> "none"]

\* Lines 168-169.
DefaultTargetsEarliest(connections) == <<connections[Len(connections)].departure_stop>>
DefaultTargets(connections) == <<connections[1].departure_stop>>

\* Lines 171-199, once the connections are read and the targets known.
FinishNewCsp(connections, targets, p2, transfers) ==
    Only({IF net.status # "ok"
          THEN [status |-> net.status, csp |-> NoCsp, params |-> st3.params, log |-> st3.log,
                reads |-> [events |-> 1, transfers |-> 1]]
          ELSE Only({[status |-> "ok",
                      csp |-> MultiObjectivePseudoCSAProfiler(connections, targets, net.net,
                                  st7.params["walking_speed"], st7.params["track_vehicle_legs"],
                                  st7.params["track_time"], st7.params["transfer_margin"]),
                      params |-> st7.params,
                      log |-> Append(st7.log, ParamsLine(st7.params)),
                      reads |-> [events |-> 1, transfers |-> 1]] :
                        st7 \in {FillRest(st3)}}) :
            st3 \in {FillMaxWalk(p2)},
            net \in {read_transfers_csv(transfers, FillMaxWalk(p2).params["max_walk_distance"])}})

_get_new_csp_with_default_settings(targets, params, events, transfers) ==
    Only({Only({IF read.status # "ok"
                THEN [status |-> read.status, csp |-> NoCsp, params |-> p2, log |-> <<>>,
                      reads |-> [events |-> 1, transfers |-> 0]]
                ELSE IF targets = None /\ read.connections = <<>>
                THEN [status |-> "IndexError", csp |-> NoCsp, params |-> p2, log |-> <<>>,
                      reads |-> [events |-> 1, transfers |-> 0]]
                ELSE FinishNewCsp(read.connections,
                                  IF targets = None THEN DefaultTargets(read.connections)
                                  ELSE Val(targets),
                                  p2, transfers) :
                  read \in {read_connections_csv(events, Val(p2["routing_start_time_dep"]),
                                                 Val(p2["routing_end_time_dep"]))}}) :
            p2 \in {FillWindow(params)}})

-----------------------------------------------------------------------------
(* _compute_profile_data.  kwargs holds track_vehicle_legs, track_time,    *)
(* routing_start_time_dep and routing_end_time_dep; csp is None or <<csp>>;*)
(* outcome is what this run of the engine does: it raises AssertionError,  *)
(* or it leaves stop profiles.                                             *)

Raises == [status |-> "AssertionError"]
Leaves(stop_profiles) == [status |-> "ok", stop_profiles |-> stop_profiles]

DefaultKwargs ==
    [track_vehicle_legs |-> TRUE, track_time |-> TRUE,
     routing_start_time_dep |-> None, routing_end_time_dep |-> None]

\* Lines 224-236.
InitialParams(targets, kwargs) ==
    [track_vehicle_legs |-> kwargs.track_vehicle_legs,
     track_time |-> kwargs.track_time,
     walking_speed |-> WalkingSpeedDefault,
     transfer_margin |-> TransferMarginDefault,
     routing_start_time_dep |-> kwargs.routing_start_time_dep,
     routing_end_time_dep |-> kwargs.routing_end_time_dep,
     max_walk_distance |-> MaxWalkDistanceDefault,
     targets |-> targets]

NoProfiles == [status |-> "none"]

\* Lines 243-252, once the engine is there.
RunAndCollect(made, csp, outcome) ==
    IF made.status # "ok"
    THEN [status |-> made.status, profiles |-> NoProfiles, csp |-> csp,
          log |-> made.log, built |-> FALSE, ran |-> FALSE, reads |-> made.reads]
    ELSE IF outcome.status = "AssertionError"
    THEN [status |-> "AssertionError", profiles |-> NoProfiles,
          csp |-> IF csp = None THEN None ELSE Some(made.csp),
          log |-> Append(made.log, Line("CSA Profiler running...")),
          built |-> (csp = None), ran |-> TRUE, reads |-> made.reads]
    ELSE Only({[status |-> "ok",
                profiles |-> [params |-> made.params, profiles |-> done.stop_profiles],
                csp |-> Some(done),
                log |-> made.log \o <<Line("CSA Profiler running..."),
                                      Line("CSA profiler finished")>>,
                built |-> (csp = None), ran |-> TRUE, reads |-> made.reads] :
                  done \in {csp_run(made.csp, outcome)}})

_compute_profile_data(targets, kwargs, csp, outcome, events, transfers) ==
    Only({RunAndCollect(made, csp, outcome) :
            made \in {IF csp = None
                      THEN _get_new_csp_with_default_settings(targets,
                               InitialParams(targets, kwargs), events, transfers)
                      ELSE [status |-> "ok", csp |-> csp_reset(Val(csp), Val(targets)),
                            params |-> InitialParams(targets, kwargs), log |-> <<>>,
                            reads |-> [events |-> 0, transfers |-> 0]]}})

-----------------------------------------------------------------------------
(* The caches.  A directory is a function from the names of the files in   *)
(* it to what was pickled into them; pickle.load yields what pickle.dump   *)
(* was given.                                                              *)

Digit == <<"0", "1", "2", "3", "4", "5", "6", "7", "8", "9">>

RECURSIVE str(_)
str(n) == IF n < 10 THEN Digit[n + 1] ELSE str(n \div 10) \o Digit[(n % 10) + 1]

RECURSIVE Join(_)
Join(strs) ==
    IF strs = <<>> THEN ""
    ELSE IF Len(strs) = 1 THEN strs[1]
    ELSE strs[1] \o "_" \o Join(Tail(strs))

\* A fingerprint that sorts the targets first.
RECURSIVE JoinAscending(_)
JoinAscending(S) ==
    IF S = {} THEN ""
    ELSE Only({IF S = {least} THEN str(least)
               ELSE str(least) \o "_" \o JoinAscending(S \ {least}) :
                 least \in {CHOOSE x \in S : \A y \in S : x <= y}})
target_list_to_str_canonical(targets) == JoinAscending(Range(targets))
target_list_to_str(targets) == Join([i \in DOMAIN targets |-> str(targets[i])])

node_profiles_fname(targets) == "node_profile_" \o target_list_to_str(targets) \o ".pickle"
profile_statistics_fname(targets) ==
    "node_profile_statistics_" \o target_list_to_str(targets) \o ".pickle"

ExistsNever(files, fname) == FALSE
exists(files, fname) == fname \in DOMAIN files
\* A dump that leaves nothing else in the directory.
DumpAlone(files, fname, obj) == (fname :> obj)
DumpIfAbsent(files, fname, obj) == IF fname \in DOMAIN files THEN files ELSE (fname :> obj) @@ files
dump(files, fname, obj) == (fname :> obj) @@ files
load(files, fname) == files[fname]

DefaultTarget == 115

NoValue == [status |-> "none"]

\* get_profile_data: computed counts the calls of _compute_profile_data, and
\* csp is the engine such a call constructed.
get_profile_data(files, targets, recompute, kwargs, outcome, events, transfers) ==
    Only({IF ~recompute /\ exists(files, fname)
          THEN [status |-> "ok", value |-> load(files, fname), files |-> files,
                computed |-> 0, csp |-> None]
          ELSE Only({IF r.status # "ok"
                     THEN [status |-> r.status, value |-> NoValue, files |-> files,
                           computed |-> 1, csp |-> r.csp]
                     ELSE [status |-> "ok", value |-> r.profiles,
                           files |-> dump(files, fname, r.profiles),
                           computed |-> 1, csp |-> r.csp] :
                       r \in {_compute_profile_data(Some(tg), kwargs, None, outcome,
                                                    events, transfers)}}) :
            tg \in {IF targets = None THEN <<DefaultTarget>> ELSE Val(targets)},
            fname \in {node_profiles_fname(IF targets = None THEN <<DefaultTarget>>
                                           ELSE Val(targets))}})

\* Variants: one never asks for the profiles to be recomputed, one lets a
\* failed reduction pass.
_compute_node_profile_statistics_reusing(files, targets, recompute_profiles, outcome, events, transfers) ==
    Only({IF got.status # "ok"
          THEN [status |-> got.status, table |-> NoValue, files |-> got.files,
                computed |-> got.computed]
          ELSE Only({[status |-> red.status,
                      table |-> IF red.status = "ok" THEN red.table ELSE NoValue,
                      files |-> got.files, computed |-> got.computed] :
                        red \in {__compute_profile_stats_from_profiles(got.value.profiles)}}) :
            got \in {get_profile_data(files, Some(targets), FALSE, DefaultKwargs,
                                      outcome, events, transfers)}})

_compute_node_profile_statistics_swallowing(files, targets, recompute_profiles, outcome, events, transfers) ==
    Only({IF got.status # "ok"
          THEN [status |-> got.status, table |-> NoValue, files |-> got.files,
                computed |-> got.computed]
          ELSE Only({[status |-> "ok", table |-> red.table,
                      files |-> got.files, computed |-> got.computed] :
                        red \in {__compute_profile_stats_from_profiles(got.value.profiles)}}) :
            got \in {get_profile_data(files, Some(targets), recompute_profiles, DefaultKwargs,
                                      outcome, events, transfers)}})

\* _compute_node_profile_statistics
_compute_node_profile_statistics(files, targets, recompute_profiles, outcome, events, transfers) ==
    Only({IF got.status # "ok"
          THEN [status |-> got.status, table |-> NoValue, files |-> got.files,
                computed |-> got.computed]
          ELSE Only({[status |-> red.status,
                      table |-> IF red.status = "ok" THEN red.table ELSE NoValue,
                      files |-> got.files, computed |-> got.computed] :
                        red \in {__compute_profile_stats_from_profiles(got.value.profiles)}}) :
            got \in {get_profile_data(files, Some(targets), recompute_profiles, DefaultKwargs,
                                      outcome, events, transfers)}})

\* get_node_profile_statistics: computed counts the calls of
\* _compute_node_profile_statistics, profilesComputed those of _compute_profile_data.
get_node_profile_statistics(pfiles, sfiles, targets, recompute, recompute_profiles, outcome, events, transfers) ==
    Only({IF ~(IF recompute_profiles THEN TRUE ELSE recompute) /\ exists(sfiles, fname)
          THEN [status |-> "ok", value |-> load(sfiles, fname), pfiles |-> pfiles,
                sfiles |-> sfiles, computed |-> 0, profilesComputed |-> 0]
          ELSE Only({IF r.status # "ok"
                     THEN [status |-> r.status, value |-> NoValue, pfiles |-> r.files,
                           sfiles |-> sfiles, computed |-> 1, profilesComputed |-> r.computed]
                     ELSE [status |-> "ok", value |-> r.table, pfiles |-> r.files,
                           sfiles |-> dump(sfiles, fname, r.table), computed |-> 1,
                           profilesComputed |-> r.computed] :
                       r \in {_compute_node_profile_statistics(pfiles, targets,
                                  recompute_profiles, outcome, events, transfers)}}) :
            fname \in {profile_statistics_fname(targets)}})

-----------------------------------------------------------------------------
(* The inputs the model draws from. *)

EventRow(from_stop_I, to_stop_I, dep_time_ut, arr_time_ut, trip_I, seq) ==
    <<Lit(from_stop_I), Lit(to_stop_I), Lit(dep_time_ut), Lit(arr_time_ut), Lit(3),
      Lit(trip_I), Lit(seq), Junk>>

\* from_stop_I,to_stop_I,dep_time_ut,arr_time_ut,route_type,trip_I,seq,route_I
EventsHeader == <<Junk, Junk, Junk, Junk, Junk, Junk, Junk, Junk>>

R12 == EventRow(1, 2, 100, 200, 1, 1)
R23 == EventRow(2, 3, 210, 300, 1, 2)
R13 == EventRow(1, 3, 50, 400, 2, 1)
R31 == EventRow(3, 1, 100, 150, 3, 1)
RBadDep == <<Lit(1), Lit(2), Junk, Lit(200), Lit(3), Lit(1), Lit(1), Lit(7)>>
RBadSeq == <<Lit(1), Lit(3), Lit(50), Lit(400), Lit(3), Lit(2), Junk, Lit(7)>>

SampleEventRows == {R12, R23, R13, R31, RBadDep, RBadSeq}
EventFiles == {<<>>} \cup {<<EventsHeader>> \o rows : rows \in SeqsUpTo(SampleEventRows, MaxEventRows)}
Windows == {<<0, 1000>>, <<60, 210>>, <<100, 100>>, <<300, 200>>}

TransferRow(from_stop_I, to_stop_I, d, d_walk) ==
    <<Lit(from_stop_I), Lit(to_stop_I), Lit(d), Lit(d_walk)>>

\* from_stop_I,to_stop_I,d,d_walk
TransfersHeader == <<Junk, Junk, Junk, Junk>>

SampleTransferRows ==
    {TransferRow(1, 2, 400, 500), TransferRow(2, 1, 900, 1500), TransferRow(2, 3, 800, 1000),
     TransferRow(3, 3, 0, 0), <<Lit(1), Lit(3), Lit(5), Junk>>, <<Junk, Lit(3), Lit(900), Lit(1500)>>}
TransferFiles ==
    {<<>>} \cup {<<TransfersHeader>> \o rows : rows \in SeqsUpTo(SampleTransferRows, MaxTransferRows)}
WalkDistances == {499, 1000}

ScenarioEvents == <<EventsHeader, R12, R23, R13>>
ScenarioTransfers == <<TransfersHeader, TransferRow(1, 2, 400, 500), TransferRow(2, 3, 800, 1500)>>

\* What a run of the engine may do.
EngineProfiles ==
    {[s \in Stops |-> "reachable"], [s \in Stops \ {NumStops} |-> "reachable"],
     [s \in Stops |-> "negative"]}
RunOutcomes == {Raises} \cup {Leaves(m) : m \in EngineProfiles}

NoCall == [op |-> "none", n |-> 0]
Idle == [pc |-> "idle"]

-----------------------------------------------------------------------------
(* The readers, called on any file and any window or distance. *)

ReadersInit ==
    /\ \/ eventsFile \in EventFiles /\ transfersFile = <<TransfersHeader>>
       \/ eventsFile = <<EventsHeader>> /\ transfersFile \in TransferFiles
    /\ profileFiles = <<>> /\ statsFiles = <<>> /\ batchFiles = <<>>
    /\ ret = NoCall /\ prev = NoCall /\ batch = Idle

ReadConnectionsCsv ==
    \E w \in Windows :
        \E r \in {read_connections_csv(eventsFile, w[1], w[2])} :
        /\ ret = NoCall
        /\ ret' = [op |-> "read_connections_csv", n |-> 1,
                   routing_start_time_dep |-> w[1], routing_end_time_dep |-> w[2],
                   status |-> r.status, value |-> r.connections]
        /\ UNCHANGED <<eventsFile, transfersFile, profileFiles, statsFiles, batchFiles, prev, batch>>

ReadTransfersCsv ==
    \E d \in WalkDistances :
        \E r \in {read_transfers_csv(transfersFile, d)} :
        /\ ret = NoCall
        /\ ret' = [op |-> "read_transfers_csv", n |-> 1, max_walk_distance |-> d,
                   status |-> r.status, value |-> r.net]
        /\ UNCHANGED <<eventsFile, transfersFile, profileFiles, statsFiles, batchFiles, prev, batch>>

ReadersNext == ReadConnectionsCsv \/ ReadTransfersCsv

SpecReaders == ReadersInit /\ [][ReadersNext]_vars

-----------------------------------------------------------------------------
(* The statistics reducer, called on any mapping from stops to profiles. *)

StopProfileMaps == UNION {[S -> ProfileKinds] : S \in SUBSET Stops}

ReduceInit ==
    /\ eventsFile = ScenarioEvents /\ transfersFile = ScenarioTransfers
    /\ profileFiles = <<>> /\ statsFiles = <<>> /\ batchFiles = <<>>
    /\ ret = NoCall /\ prev = NoCall /\ batch = Idle

ComputeProfileStatsFromProfiles ==
    \E profile_data \in StopProfileMaps :
        \E r \in {__compute_profile_stats_from_profiles(profile_data)} :
        /\ ret = NoCall
        /\ ret' = [op |-> "__compute_profile_stats_from_profiles", n |-> 1,
                   profile_data |-> profile_data,
                   status |-> r.status, value |-> r.table, log |-> r.log]
        /\ UNCHANGED <<eventsFile, transfersFile, profileFiles, statsFiles, batchFiles, prev, batch>>

ReduceNext == ComputeProfileStatsFromProfiles

SpecReduce == ReduceInit /\ [][ReduceNext]_vars

-----------------------------------------------------------------------------
(* The cached getters, called in any order.  RESULTS_DIRECTORY starts      *)
(* empty or as an earlier call of get_node_profile_statistics left it.     *)
(* ret.outcome is what the engine did if the call ran it, None otherwise.  *)

CacheTargets == {<<1, 2>>, <<2, 1>>}
KwargsSet ==
    {DefaultKwargs,
     [track_vehicle_legs |-> FALSE, track_time |-> TRUE,
      routing_start_time_dep |-> Some(60), routing_end_time_dep |-> Some(210)]}

PriorDirectories ==
    {[pfiles |-> <<>>, sfiles |-> <<>>]} \cup
    {[pfiles |-> r.pfiles, sfiles |-> r.sfiles] :
        r \in {get_node_profile_statistics(<<>>, <<>>, <<1, 2>>, FALSE, FALSE, outcome,
                                           ScenarioEvents, ScenarioTransfers) :
                   outcome \in RunOutcomes}}

CacheInit ==
    /\ eventsFile = ScenarioEvents /\ transfersFile = ScenarioTransfers
    /\ \E dir \in PriorDirectories : profileFiles = dir.pfiles /\ statsFiles = dir.sfiles
    /\ batchFiles = <<>>
    /\ ret = NoCall /\ prev = NoCall /\ batch = Idle

GetProfileDataCall(targetChoices) ==
    /\ ret.n < MaxCalls
    /\ \E targets \in targetChoices, recompute \in BOOLEAN, kwargs \in KwargsSet,
          outcome \in RunOutcomes :
        \E r \in {get_profile_data(profileFiles, targets, recompute, kwargs, outcome,
                                   eventsFile, transfersFile)} :
            /\ ret' = [op |-> "get_profile_data", n |-> ret.n + 1, targets |-> targets,
                       recompute |-> recompute, recompute_profiles |-> FALSE,
                       kwargs |-> kwargs,
                       outcome |-> IF r.computed > 0 THEN Some(outcome) ELSE None,
                       status |-> r.status, value |-> r.value,
                       computed |-> r.computed, profilesComputed |-> r.computed,
                       csp |-> r.csp]
            /\ prev' = ret
            /\ profileFiles' = r.files
            /\ UNCHANGED <<eventsFile, transfersFile, statsFiles, batchFiles, batch>>

CallGetProfileData == GetProfileDataCall({Some(targets) : targets \in CacheTargets})

CallGetNodeProfileStatistics ==
    /\ ret.n < MaxCalls
    /\ \E targets \in CacheTargets, recompute \in BOOLEAN, recompute_profiles \in BOOLEAN,
          outcome \in RunOutcomes :
        \E r \in {get_node_profile_statistics(profileFiles, statsFiles, targets, recompute,
                                              recompute_profiles, outcome,
                                              eventsFile, transfersFile)} :
            /\ ret' = [op |-> "get_node_profile_statistics", n |-> ret.n + 1,
                       targets |-> Some(targets),
                       recompute |-> recompute, recompute_profiles |-> recompute_profiles,
                       kwargs |-> DefaultKwargs,
                       outcome |-> IF r.profilesComputed > 0 THEN Some(outcome) ELSE None,
                       status |-> r.status, value |-> r.value,
                       computed |-> r.computed, profilesComputed |-> r.profilesComputed,
                       csp |-> None]
            /\ prev' = ret
            /\ profileFiles' = r.pfiles
            /\ statsFiles' = r.sfiles
            /\ UNCHANGED <<eventsFile, transfersFile, batchFiles, batch>>

CacheNext == CallGetProfileData \/ CallGetNodeProfileStatistics

SpecCache == CacheInit /\ [][CacheNext]_vars

-----------------------------------------------------------------------------
(* The profiler adapter, called once on any parameter bag with or without  *)
(* targets, and get_profile_data called without targets.                   *)

WindowOptions == {"routing_start_time_dep", "routing_end_time_dep"}
PlainOptions ==
    {"max_walk_distance", "track_time", "track_vehicle_legs", "transfer_margin", "walking_speed"}
RecognizedOptions == WindowOptions \cup PlainOptions

\* A value a caller supplies, different from the default.
Supplied(key) ==
    CASE key = "max_walk_distance" -> 500
      [] key = "track_time" -> FALSE
      [] key = "track_vehicle_legs" -> FALSE
      [] key = "transfer_margin" -> 0
      [] key = "walking_speed" -> <<1, 1>>

ParamBags ==
    {start @@ end @@ plain :
        start \in {<<>>, "routing_start_time_dep" :> None, "routing_start_time_dep" :> Some(60)},
        end \in {<<>>, "routing_end_time_dep" :> None, "routing_end_time_dep" :> Some(100)},
        plain \in {[key \in K |-> Supplied(key)] : K \in SUBSET PlainOptions}}

ResolveEventFiles ==
    {ScenarioEvents, <<EventsHeader, R31, R12, R23>>, <<EventsHeader>>, <<EventsHeader, R23>>}

ResolveInit ==
    /\ eventsFile \in ResolveEventFiles /\ transfersFile = ScenarioTransfers
    /\ profileFiles = <<>> /\ statsFiles = <<>> /\ batchFiles = <<>>
    /\ ret = NoCall /\ prev = NoCall /\ batch = Idle

CallGetNewCsp ==
    /\ ret = NoCall
    /\ \E targets \in {None, Some(<<1>>)}, params \in ParamBags :
        \E r \in {_get_new_csp_with_default_settings(targets, params, eventsFile, transfersFile)} :
            /\ ret' = [op |-> "_get_new_csp_with_default_settings", n |-> 1,
                       targets |-> targets, params |-> params,
                       status |-> r.status, value |-> r.params,
                       csp |-> IF r.status = "ok" THEN Some(r.csp) ELSE None,
                       log |-> r.log]
            /\ UNCHANGED <<eventsFile, transfersFile, profileFiles, statsFiles, batchFiles,
                           prev, batch>>

CallGetProfileDataNoTargets == GetProfileDataCall({None})

ResolveNext == CallGetNewCsp \/ CallGetProfileDataNoTargets

SpecResolve == ResolveInit /\ [][ResolveNext]_vars

-----------------------------------------------------------------------------
(* compute_all_to_all_profile_statistics_with_defaults.  One step is one   *)
(* pass through the body of the loop; what the engine does in that pass is *)
(* chosen freely among RunOutcomes.  built counts the engines constructed,  *)
(* reads the reads of the two inputs, and pass tells what the last pass    *)
(* did: how it got its engine, the targets and the profiles of the engine  *)
(* when run() was over, and whether it wrote its file.                     *)

all_to_all_stats_fname(target_I) == "all_to_all_stats_target_" \o str(target_I) \o ".pkl"

BatchTargetLists == {None, Some(<<>>), Some(<<1, 2>>), Some(<<2, 1, 3>>), Some(<<3, 3>>)}

BatchEventFiles == {ScenarioEvents, <<EventsHeader, R12, RBadDep>>}

BatchInit ==
    /\ eventsFile \in BatchEventFiles /\ transfersFile = ScenarioTransfers
    /\ profileFiles = <<>> /\ statsFiles = <<>> /\ batchFiles = <<>>
    /\ ret = NoCall /\ prev = NoCall /\ batch = Idle

NoPass == [prepared |-> "none", ran |-> FALSE, engine |-> None, stored |-> FALSE]

\* What a pass did, from what _compute_profile_data did in it.
PassOf(computed, had, stored) ==
    [index |-> batch.i, target |-> batch.target_Is[batch.i],
     prepared |-> IF computed.built THEN "constructed" ELSE IF had # None THEN "reset" ELSE "none",
     ran |-> computed.ran,
     engine |-> IF computed.status = "ok" THEN computed.csp ELSE None,
     stored |-> stored]

ReadsAfter(computed) ==
    [events |-> batch.reads.events + computed.reads.events,
     transfers |-> batch.reads.transfers + computed.reads.transfers]

\* Lines 319-322.
BatchStart ==
    /\ batch.pc = "idle"
    /\ \E target_Is \in BatchTargetLists :
        batch' = [pc |-> "loop",
                  target_Is |-> IF target_Is = None THEN nodes_stop_I ELSE Val(target_Is),
                  i |-> 1, csp |-> None, built |-> 0, error |-> "none",
                  reads |-> [events |-> 0, transfers |-> 0], pass |-> NoPass]
    /\ UNCHANGED <<eventsFile, transfersFile, profileFiles, statsFiles, batchFiles, ret, prev>>

Continue(computed, stored) ==
    [batch EXCEPT !.i = @ + 1, !.csp = computed.csp,
                  !.built = @ + (IF computed.built THEN 1 ELSE 0),
                  !.reads = ReadsAfter(computed),
                  !.pass = PassOf(computed, batch.csp, stored)]

Abort(computed, error) ==
    [batch EXCEPT !.pc = "raised", !.error = error,
                  !.built = @ + (IF computed.built THEN 1 ELSE 0),
                  !.reads = ReadsAfter(computed),
                  !.pass = PassOf(computed, batch.csp, FALSE)]

\* Lines 331-340, with data and csp assigned.
ReduceAndStore(target_I, computed) ==
    \E obs_name_to_data \in {__compute_profile_stats_from_profiles(computed.profiles.profiles)} :
        IF obs_name_to_data.status # "ok"
        THEN /\ batch' = Abort(computed, obs_name_to_data.status)
             /\ UNCHANGED batchFiles
        ELSE /\ batch' = Continue(computed, TRUE)
             /\ batchFiles' = dump(batchFiles, all_to_all_stats_fname(target_I),
                                   [target |-> target_I,
                                    params |-> computed.profiles.params,
                                    stats |-> obs_name_to_data.table])

\* Lines 323-340.
BatchIteration ==
    /\ batch.pc = "loop" /\ batch.i <= Len(batch.target_Is)
    /\ \E outcome \in RunOutcomes :
        \E computed \in {_compute_profile_data(Some(<<batch.target_Is[batch.i]>>), DefaultKwargs,
                                               batch.csp, outcome, eventsFile, transfersFile)} :
            IF computed.status = "AssertionError"
            THEN /\ batch' = Continue(computed, FALSE)
                 /\ UNCHANGED batchFiles
            ELSE IF computed.status # "ok"
            THEN /\ batch' = Abort(computed, computed.status)
                 /\ UNCHANGED batchFiles
            ELSE ReduceAndStore(batch.target_Is[batch.i], computed)
    /\ UNCHANGED <<eventsFile, transfersFile, profileFiles, statsFiles, ret, prev>>

\* The loop is exhausted and the function returns.
BatchReturn ==
    /\ batch.pc = "loop" /\ batch.i > Len(batch.target_Is)
    /\ batch' = [batch EXCEPT !.pc = "done"]
    /\ UNCHANGED <<eventsFile, transfersFile, profileFiles, statsFiles, batchFiles, ret, prev>>

BatchNext == BatchStart \/ BatchIteration \/ BatchReturn

SpecBatch == BatchInit /\ [][BatchNext]_vars

-----------------------------------------------------------------------------
(* Claims about the readers (SpecReaders). *)

\* The records of a file: its rows behind the header.
RecordsOf(file) == IF file = <<>> THEN <<>> ELSE [i \in 1..(Len(file) - 1) |-> file[i + 1]]

Occurrences(seq, x) == Cardinality({i \in DOMAIN seq : seq[i] = x})

RowDeparture(row) == row[3].n
RowInWindow(row, s, e) == row[3].lit /\ s <= row[3].n /\ row[3].n <= e
RowConnection(row) ==
    [departure_stop |-> row[1].n, arrival_stop |-> row[2].n, departure_time |-> row[3].n,
     arrival_time |-> row[4].n, trip_id |-> row[6].n, seq |-> row[7].n]

ReadConnectionsReturned == ret.op = "read_connections_csv" /\ ret.status = "ok"

\* C5: the sequence returned by the timetable reader for window [s, e] holds
\* exactly the records with s <= departure_time <= e, each as often as the
\* source holds it, and is sorted non-increasing by departure_time.
C5_WindowFilteredAndSortedDescending ==
    ReadConnectionsReturned =>
        LET records == RecordsOf(eventsFile)
            s == ret.routing_start_time_dep
            e == ret.routing_end_time_dep
            kept == {i \in DOMAIN records : RowInWindow(records[i], s, e)}
        IN  /\ \A i \in DOMAIN ret.value :
                   /\ s <= ret.value[i].departure_time
                   /\ ret.value[i].departure_time <= e
                   /\ Occurrences(ret.value, ret.value[i])
                        = Cardinality({j \in kept : RowConnection(records[j]) = ret.value[i]})
            /\ \A j \in kept : \E i \in DOMAIN ret.value : ret.value[i] = RowConnection(records[j])
            /\ Len(ret.value) = Cardinality(kept)
            /\ \A i, j \in DOMAIN ret.value :
                   i < j => ret.value[i].departure_time >= ret.value[j].departure_time

\* A read that returned three connections, the latest not first in the
\* source, and left a record outside the window out.
C5_Witness ==
    /\ ReadConnectionsReturned
    /\ Len(ret.value) = 3
    /\ Len(RecordsOf(eventsFile)) = 3
    /\ ret.routing_end_time_dep = 210
    /\ RowDeparture(RecordsOf(eventsFile)[1]) < RowDeparture(RecordsOf(eventsFile)[2])
    /\ ret.value[1].departure_time = 210

\* The fields of a record the reader may convert: positions 0, 1, 2, 3, 5, 6.
ConsumedFields == {from_node_index, to_node_index, dep_time_index, arr_time_index,
                   trip_I_index, seq_index}
Malformed(row) == \E k \in ConsumedFields : ~row[k + 1].lit

\* C12, as claimed: a record with a non-integer value in a consumed field
\* makes the read fail with a parsing error and return no connection,
\* wherever the record stands and whatever its departure time.
C12_Original_AnyMalformedRecordFailsTheRead ==
    /\ ret.op = "read_connections_csv"
    /\ \E i \in DOMAIN RecordsOf(eventsFile) : Malformed(RecordsOf(eventsFile)[i])
    => ret.status = "ValueError" /\ ret.value = <<>>

\* A record the reader rejects: its departure time is no integer, or its
\* departure time lies in the window and another consumed field is no integer.
Rejected(row, s, e) ==
    \/ ~row[dep_time_index + 1].lit
    \/ RowInWindow(row, s, e) /\ Malformed(row)

\* C12, amended: the read of a file with a header fails with a parsing error,
\* returning no connection, exactly when some record has a non-integer
\* departure time or has its departure time in the window and a non-integer
\* value at position 0, 1, 3, 5 or 6; a record outside the window with such a
\* value is passed over without error.
C12_MalformedRecordFailsTheReadWhenConverted ==
    ret.op = "read_connections_csv" /\ eventsFile # <<>> =>
        /\ ret.status = "ValueError" <=>
               \E i \in DOMAIN RecordsOf(eventsFile) :
                   Rejected(RecordsOf(eventsFile)[i], ret.routing_start_time_dep,
                            ret.routing_end_time_dep)
        /\ ret.status = "ValueError" => ret.value = <<>>

\* A read that failed on its third record, whose departure time is an integer
\* in the window and whose seq is not.
C12_Witness ==
    /\ ret.op = "read_connections_csv" /\ ret.status = "ValueError"
    /\ Len(RecordsOf(eventsFile)) = 3
    /\ ~Malformed(RecordsOf(eventsFile)[1]) /\ ~Malformed(RecordsOf(eventsFile)[2])
    /\ RecordsOf(eventsFile)[3] = RBadSeq
    /\ RowInWindow(RBadSeq, ret.routing_start_time_dep, ret.routing_end_time_dep)

ReadTransfersReturned == ret.op = "read_transfers_csv" /\ ret.status = "ok"

RowEnds(row) == {row[1].n, row[2].n}
RowWithin(row, d) == row[4].lit /\ row[4].n <= d /\ row[1].lit /\ row[2].lit

\* C6: the graph returned by the transfer-graph reader for max_walk_distance d
\* has an undirected edge between two stops if and only if some record
\* between them has d_walk <= d, and no edge carries a d_walk above d.
C6_EdgeIffWithinWalkDistance ==
    ReadTransfersReturned =>
        LET records == RecordsOf(transfersFile)
            d == ret.max_walk_distance
        IN  /\ \A u, v \in 1..3 :
                   ({u, v} \in {e.ends : e \in ret.value.edges})
                     <=> (\E i \in DOMAIN records :
                              RowWithin(records[i], d) /\ RowEnds(records[i]) = {u, v})
            /\ \A e \in ret.value.edges :
                   /\ e.d_walk <= d
                   /\ e.ends \subseteq 1..3
            /\ \A e1, e2 \in ret.value.edges : e1.ends = e2.ends => e1 = e2

\* A read that kept an edge at exactly the maximum distance and dropped the
\* record of another pair that lies beyond it.
C6_Witness ==
    /\ ReadTransfersReturned
    /\ ret.max_walk_distance = 1000
    /\ \E e \in ret.value.edges : e.d_walk = 1000
    /\ Cardinality(ret.value.edges) = 1
    /\ \E i \in DOMAIN RecordsOf(transfersFile) :
           /\ RecordsOf(transfersFile)[i][4].lit
           /\ RecordsOf(transfersFile)[i][4].n > 1000

-----------------------------------------------------------------------------
(* Claims about the statistics reducer (SpecReduce). *)

ReducerReturned == ret.op = "__compute_profile_stats_from_profiles" /\ ret.status = "ok"

TableValues(table) == UNION {Range(table[name]) : name \in DOMAIN table}

\* C4, as claimed: every value of a table the reducer returns is NaN,
\* +infinity or >= 0; no negative value, finite or infinite, is in it.
C4_Original_NoNegativeValue ==
    ReducerReturned => TableValues(ret.value) \subseteq {"nan", "+inf", "zero", "pos"}

\* C4, amended: every value of a table the reducer returns is NaN, an
\* infinity of either sign, or >= 0; no negative finite value (and no None)
\* is in it.
C4_NaNOrInfiniteOrNonNegative ==
    ReducerReturned => TableValues(ret.value) \subseteq {"nan", "+inf", "-inf", "zero", "pos"}

\* A returned table holding -infinity beside NaN and +infinity.
C4_Witness ==
    /\ ReducerReturned
    /\ {"-inf", "nan", "+inf"} \subseteq TableValues(ret.value)

\* The mapping with every node-table stop it lacks mapped to a finalized
\* empty profile.
Completed(profile_data) ==
    [s \in DOMAIN profile_data \cup Stops |->
        IF s \in DOMAIN profile_data THEN profile_data[s] ELSE EmptyProfile]

\* C7: a node-table stop absent from the profile mapping does not fail the
\* reduction, and it yields for every observable the value of a stop whose
\* profile is an explicitly finalized empty profile: the reduction ends as
\* that of the mapping completed with empty profiles does, with the same table.
C7_MissingStopAsFinalizedEmptyProfile ==
    ret.op = "__compute_profile_stats_from_profiles" =>
        LET explicit == __compute_profile_stats_from_profiles(Completed(ret.profile_data))
        IN  /\ ret.status = explicit.status
            /\ ret.value = explicit.table
            /\ ret.status = "ok" =>
                   \A i \in DOMAIN nodes_stop_I : \A name \in DOMAIN ret.value :
                       nodes_stop_I[i] \notin DOMAIN ret.profile_data =>
                           ret.value[name][i] = Measure(EmptyProfile, name)
            /\ (\A s \in DOMAIN ret.profile_data :
                    ret.profile_data[s] \in {"empty", "target", "reachable", "undefined", "neginf"})
                   => ret.status = "ok"

\* A returned table for a mapping that lacks one stop, maps another to an
\* explicit empty profile and a third to a reachable one.
C7_Witness ==
    /\ ReducerReturned
    /\ \E s, t, u \in Stops :
           /\ s \notin DOMAIN ret.profile_data
           /\ t \in DOMAIN ret.profile_data /\ ret.profile_data[t] = EmptyProfile
           /\ u \in DOMAIN ret.profile_data /\ ret.profile_data[u] = "reachable"

-----------------------------------------------------------------------------
(* Claims about the cached getters (SpecCache). *)

Getters == {"get_profile_data", "get_node_profile_statistics"}

\* The targets a call works on, and the cache entry of its fingerprint now.
TargetsOf(call) == IF call.targets = None THEN <<DefaultTarget>> ELSE Val(call.targets)
EntryName(call) ==
    IF call.op = "get_profile_data" THEN node_profiles_fname(TargetsOf(call))
    ELSE profile_statistics_fname(TargetsOf(call))
Directory(call) == IF call.op = "get_profile_data" THEN profileFiles ELSE statsFiles

\* The last two calls were the same getter on the same target list, both with
\* recompute=False, and the first of them returned.
TwiceInARow ==
    /\ prev.op \in Getters /\ ret.op = prev.op
    /\ ret.targets = prev.targets
    /\ ~prev.recompute /\ ~ret.recompute
    /\ prev.status = "ok"

\* C1, as claimed: the second of two calls in a row of a cached getter with
\* recompute=False returns what the first returned and does not invoke the
\* compute function.
C1_Original_SecondCallLoads ==
    TwiceInARow => ret.status = "ok" /\ ret.value = prev.value /\ ret.computed = 0

\* C1, amended: the same, for get_node_profile_statistics provided the second
\* call does not pass recompute_profiles=True.
C1_SecondCallLoads ==
    TwiceInARow /\ ~ret.recompute_profiles =>
        /\ ret.status = "ok"
        /\ ret.value = prev.value
        /\ ret.computed = 0
        /\ ret.profilesComputed = 0

\* Two calls in a row with recompute=False, the first of which computed.
C1_Witness ==
    /\ TwiceInARow /\ ~ret.recompute_profiles
    /\ prev.computed = 1
    /\ ret.computed = 0
    /\ ret.value = prev.value

\* C2: a call with recompute=True invokes the compute function whether or not
\* the fingerprint has an entry, and once it has returned the entry holds
\* what this call computed: for the profiles, the parameters of this call
\* and the profiles this run of the engine left; for the statistics, the
\* reduction of the profile entry as it now is.
C2_RecomputeInvokesAndOverwrites ==
    ret.op \in Getters /\ ret.recompute =>
        /\ ret.computed = 1
        /\ ret.status = "ok" =>
               /\ exists(Directory(ret), EntryName(ret))
               /\ load(Directory(ret), EntryName(ret)) = ret.value
               /\ ret.op = "get_profile_data" =>
                      /\ ret.outcome # None
                      /\ ret.value.profiles = Val(ret.outcome).stop_profiles
                      /\ ret.value.params["track_vehicle_legs"] = ret.kwargs.track_vehicle_legs
                      /\ ret.value.params["targets"] = ret.targets
               /\ ret.op = "get_node_profile_statistics" =>
                      /\ exists(profileFiles, node_profiles_fname(TargetsOf(ret)))
                      /\ ret.value = __compute_profile_stats_from_profiles(
                             load(profileFiles, node_profiles_fname(TargetsOf(ret))).profiles).table

\* A recompute that replaced the entry an earlier call of the same getter on
\* the same targets had written, by a different result.
C2_Witness ==
    /\ prev.op \in Getters /\ ret.op = prev.op /\ ret.targets = prev.targets
    /\ prev.status = "ok" /\ ret.status = "ok"
    /\ ret.recompute
    /\ ret.value # prev.value
    /\ load(Directory(ret), EntryName(ret)) = ret.value

-----------------------------------------------------------------------------
(* Claims about the profiler adapter (SpecResolve). *)

\* The origin stop of the record that comes first when the records of the
\* window [s, e] are put in descending order of departure, records of equal
\* departure staying in the order of the source.
IsLatestInWindow(records, i, s, e) ==
    /\ RowInWindow(records[i], s, e)
    /\ \A j \in DOMAIN records :
           RowInWindow(records[j], s, e) =>
               \/ RowDeparture(records[j]) < RowDeparture(records[i])
               \/ RowDeparture(records[j]) = RowDeparture(records[i]) /\ i <= j

ResolvedParams(call) == IF call.op = "get_profile_data" THEN call.value.params ELSE call.value

HandsLatestOrigin(call) ==
    \E i \in DOMAIN RecordsOf(eventsFile) :
        /\ IsLatestInWindow(RecordsOf(eventsFile), i,
                            Val(ResolvedParams(call)["routing_start_time_dep"]),
                            Val(ResolvedParams(call)["routing_end_time_dep"]))
        /\ Val(call.csp).targets = <<RecordsOf(eventsFile)[i][1].n>>

\* C8, as claimed: whenever no explicit targets are given, the engine is
\* handed the single origin stop of the connection that is first in
\* descending-departure order within the window.
C8_Original_DefaultTargetIsLatestOrigin ==
    /\ ret.op \in {"_get_new_csp_with_default_settings", "get_profile_data"}
    /\ ret.targets = None
    /\ ret.csp # None
    => HandsLatestOrigin(ret)

\* C8, amended: _get_new_csp_with_default_settings called with targets=None
\* hands the engine that origin stop when the window holds a connection and
\* fails with IndexError when it holds none; get_profile_data called without
\* targets hands the engine the fixed list [115].
C8_DefaultTargetByEntryPoint ==
    /\ ret.op = "_get_new_csp_with_default_settings" /\ ret.targets = None =>
           /\ ret.status = "ok" => HandsLatestOrigin(ret)
           /\ ret.status = "IndexError" <=>
                  ~\E i \in DOMAIN RecordsOf(eventsFile) :
                       RowInWindow(RecordsOf(eventsFile)[i],
                                   Val(ret.value["routing_start_time_dep"]),
                                   Val(ret.value["routing_end_time_dep"]))
    /\ ret.op = "get_profile_data" /\ ret.targets = None /\ ret.csp # None =>
           Val(ret.csp).targets = <<DefaultTarget>>

\* The adapter called without targets on a window whose two latest
\* connections leave at the same time: the engine gets the origin of the one
\* that is first in the source.
C8_Witness ==
    /\ ret.op = "_get_new_csp_with_default_settings" /\ ret.targets = None
    /\ ret.status = "ok"
    /\ eventsFile = <<EventsHeader, R31, R12, R23>>
    /\ ret.value["routing_end_time_dep"] = Some(100)
    /\ Val(ret.csp).targets = <<3>>

AdapterReturned == ret.op = "_get_new_csp_with_default_settings" /\ ret.status = "ok"

Unset(params, key) ==
    \/ key \notin DOMAIN params
    \/ key \in WindowOptions /\ params[key] = None

DefaultOf(key) ==
    CASE key = "routing_start_time_dep" -> Some(ROUTING_START_TIME_DEP)
      [] key = "routing_end_time_dep" -> Some(ROUTING_END_TIME_DEP)
      [] key = "max_walk_distance" -> 1000
      [] key = "track_time" -> TRUE
      [] key = "track_vehicle_legs" -> TRUE
      [] key = "transfer_margin" -> 180
      [] key = "walking_speed" -> <<70, 60>>

DiagnosticOf(key) ==
    CASE key = "max_walk_distance" -> Line("resetting max walk distance to default (1000m)")
      [] key = "track_time" -> Line("setting time tracking on")
      [] key = "track_vehicle_legs" -> Line("setting vehicle boarding counting on")
      [] key = "transfer_margin" -> Line("resetting transfer margin to 180 seconds")
      [] key = "walking_speed" -> Line("resetting walking speed to default value of 70m/60s:")

\* The lines printed about single options: all but the dump of the whole bag.
Diagnostics(log) == {i \in DOMAIN log : log[i].text # "params"}

EveryOptionResolved ==
    \A key \in RecognizedOptions :
        /\ key \in DOMAIN ret.value
        /\ IF Unset(ret.params, key) THEN ret.value[key] = DefaultOf(key)
           ELSE ret.value[key] = ret.params[key]

\* C10, as claimed: resolution leaves every recognized option set, a supplied
\* value kept and an unset one at its default, and emits one diagnostic for
\* each option it filled with the default.
C10_Original_DiagnosticPerDefaultedOption ==
    AdapterReturned =>
        /\ EveryOptionResolved
        /\ Cardinality(Diagnostics(ret.log))
             = Cardinality({key \in RecognizedOptions : Unset(ret.params, key)})

\* C10, amended: resolution leaves every recognized option set, a supplied
\* value kept and an unset one (a window bound also when None) at its default,
\* and emits one diagnostic for each of max_walk_distance, track_time,
\* track_vehicle_legs, transfer_margin and walking_speed it filled, and none
\* for routing_start_time_dep and routing_end_time_dep.
C10_DiagnosticPerDefaultedPlainOption ==
    AdapterReturned =>
        /\ EveryOptionResolved
        /\ \A key \in PlainOptions :
               Unset(ret.params, key) <=> \E i \in DOMAIN ret.log : ret.log[i] = DiagnosticOf(key)
        /\ Cardinality(Diagnostics(ret.log))
             = Cardinality({key \in PlainOptions : Unset(ret.params, key)})

\* A bag that supplies transfer_margin, lacks max_walk_distance and
\* walking_speed, and holds None for the start of the window.
C10_Witness ==
    /\ AdapterReturned
    /\ "transfer_margin" \in DOMAIN ret.params
    /\ "max_walk_distance" \notin DOMAIN ret.params
    /\ "walking_speed" \notin DOMAIN ret.params
    /\ "routing_start_time_dep" \in DOMAIN ret.params
    /\ ret.params["routing_start_time_dep"] = None
    /\ "routing_end_time_dep" \notin DOMAIN ret.params

-----------------------------------------------------------------------------
(* Claims about the all-to-all batch (SpecBatch). *)

\* C3, as claimed: a target whose observable values fail the non-negativity
\* invariant is skipped and the batch goes on, so the batch never ends on
\* that AssertionError.
C3_FailedInvariantSkipsTarget ==
    ~(batch.pc = "raised" /\ batch.error = "AssertionError")

\* C9, as claimed: every result file the batch has written holds the id of
\* its target and parameters in which every recognized option is set, the
\* two bounds of the routing window to the values the engine was given.
C9_EveryFileCarriesResolvedParams ==
    \A target_I \in Stops :
        all_to_all_stats_fname(target_I) \in DOMAIN batchFiles =>
            /\ batchFiles[all_to_all_stats_fname(target_I)].target = target_I
            /\ \A key \in RecognizedOptions :
                   key \in DOMAIN batchFiles[all_to_all_stats_fname(target_I)].params
            /\ batchFiles[all_to_all_stats_fname(target_I)].params["routing_start_time_dep"]
                 = Some(ROUTING_START_TIME_DEP)
            /\ batchFiles[all_to_all_stats_fname(target_I)].params["routing_end_time_dep"]
                 = Some(ROUTING_END_TIME_DEP)

\* C11, as claimed: when the batch writes the file of a target it has already
\* written, with the same observable table, the new content is identical to
\* the content it replaces.
C11_RepeatedTargetRewritesIdenticalContent ==
    [][\A fname \in DOMAIN batchFiles :
           /\ fname \in DOMAIN batchFiles'
           /\ batchFiles'[fname].stats = batchFiles[fname].stats
           => batchFiles'[fname] = batchFiles[fname]]_vars

-----------------------------------------------------------------------------
(* More claims about the cached getters (SpecCache). *)

HasNegativeValue(profile_data) ==
    \E stop_I \in Stops, k \in DOMAIN profile_observable_names :
        Measure(ProfileOf(profile_data, stop_I), profile_observable_names[k]) = "neg"

\* The last call was get_node_profile_statistics, it went on to compute the
\* statistics, and the profiles it got, loaded or left by this run of the
\* engine, hold a negative finite observable value.
ReducedNegativeProfiles ==
    /\ ret.op = "get_node_profile_statistics" /\ ret.computed = 1
    /\ ret.profilesComputed = 0 \/ Val(ret.outcome).status = "ok"
    /\ exists(profileFiles, node_profiles_fname(TargetsOf(ret)))
    /\ HasNegativeValue(load(profileFiles, node_profiles_fname(TargetsOf(ret))).profiles)

\* C13: a call of get_node_profile_statistics that reduces profiles with a
\* negative finite observable value ends with AssertionError raised to its
\* caller and leaves the statistics entries as they were.
C13_NegativeValuePropagatesAndLeavesStatisticsEntry ==
    [][ret'.n = ret.n + 1 /\ ReducedNegativeProfiles'
         => ret'.status = "AssertionError" /\ statsFiles' = statsFiles]_vars

\* A failing call on a fingerprint whose statistics entry an earlier call had
\* written: the profiles were recomputed, came out negative, and the entry is
\* still there.
C13_Witness ==
    /\ ReducedNegativeProfiles
    /\ ret.profilesComputed = 1
    /\ ret.status = "AssertionError"
    /\ exists(statsFiles, EntryName(ret))

\* Every entry of directory before is in directory after, and unchanged
\* unless it bears the name fname and may is true.
EntriesKept(before, after, fname, may) ==
    \A f \in DOMAIN before :
        /\ f \in DOMAIN after
        /\ after[f] # before[f] => may /\ f = fname

\* What a call with recompute=False that finds the entry of its fingerprint
\* does: nothing to the store, and it returns the entry.
HitLeavesStore(call, pfilesBefore, sfilesBefore, pfilesAfter, sfilesAfter) ==
    Only({exists(directory, fname) =>
              /\ pfilesAfter = pfilesBefore /\ sfilesAfter = sfilesBefore
              /\ call.status = "ok" /\ call.value = directory[fname]
              /\ call.computed = 0 /\ call.profilesComputed = 0 :
            directory \in {IF call.op = "get_profile_data" THEN pfilesBefore ELSE sfilesBefore},
            fname \in {IF call.op = "get_profile_data" THEN node_profiles_fname(TargetsOf(call))
                       ELSE profile_statistics_fname(TargetsOf(call))}})

\* C14, as claimed: a call never removes an entry, modifies only an entry of
\* its own fingerprint and only when it passes recompute=True, and with
\* recompute=False on a fingerprint that has its entry it leaves both
\* directories unchanged and returns the entry.
C14_Original_EntryStableUnlessRecompute ==
    [][ret'.n = ret.n + 1 =>
          /\ EntriesKept(profileFiles, profileFiles', node_profiles_fname(TargetsOf(ret')),
                         ret'.recompute)
          /\ EntriesKept(statsFiles, statsFiles', profile_statistics_fname(TargetsOf(ret')),
                         ret'.recompute)
          /\ ~ret'.recompute =>
                 HitLeavesStore(ret', profileFiles, statsFiles, profileFiles', statsFiles')]_vars

\* C14, amended: a call never removes an entry; a profile entry is modified
\* only by get_profile_data with recompute=True or get_node_profile_statistics
\* with recompute_profiles=True, a statistics entry only by
\* get_node_profile_statistics with recompute=True or recompute_profiles=True,
\* each on its own fingerprint; a call with recompute=False, and for
\* get_node_profile_statistics recompute_profiles=False, on a fingerprint that
\* has its entry leaves both directories unchanged and returns the entry,
\* whatever window and tracking flags it passes.
C14_EntryStableUnlessRecomputeRequested ==
    [][ret'.n = ret.n + 1 =>
          /\ EntriesKept(profileFiles, profileFiles', node_profiles_fname(TargetsOf(ret')),
                         IF ret'.op = "get_profile_data" THEN ret'.recompute
                         ELSE ret'.recompute_profiles)
          /\ EntriesKept(statsFiles, statsFiles', profile_statistics_fname(TargetsOf(ret')),
                         ret'.recompute \/ ret'.recompute_profiles)
          /\ ~ret'.recompute /\ ~ret'.recompute_profiles =>
                 HitLeavesStore(ret', profileFiles, statsFiles, profileFiles', statsFiles')]_vars

\* get_profile_data found the entry an earlier call had computed under other
\* tracking flags and another window, and returned it.
C14_Witness ==
    /\ ret.op = "get_profile_data" /\ ~ret.recompute /\ ret.computed = 0
    /\ ret.n = MaxCalls
    /\ ret.kwargs.routing_start_time_dep = Some(60)
    /\ ret.value.params["routing_start_time_dep"] = Some(ROUTING_START_TIME_DEP)
    /\ ret.value = profileFiles[node_profiles_fname(TargetsOf(ret))]
    /\ node_profiles_fname(<<2, 1>>) \in DOMAIN profileFiles
    /\ node_profiles_fname(<<1, 2>>) \in DOMAIN profileFiles

\* The same getter is called on the same targets in another order, with
\* recompute=False, after call first has returned.
Reordered(first, second) ==
    /\ first.op \in Getters /\ second.op = first.op
    /\ first.status = "ok"
    /\ ~second.recompute
    /\ TargetsOf(second) # TargetsOf(first)
    /\ Range(TargetsOf(second)) = Range(TargetsOf(first))

MissesEntryOfOtherOrder(first, second, directory, fnameFirst, fnameSecond) ==
    /\ fnameSecond # fnameFirst
    /\ exists(directory, fnameFirst)
    /\ ~exists(directory, fnameSecond) => second.computed = 1
    /\ second.computed = 0 => second.value = directory[fnameSecond]

\* C15: the fingerprints of the same targets in two orders differ, so the
\* second of two such calls does not load the entry the first wrote: unless
\* its own order has an entry, which it then returns, it invokes the compute
\* function.
C15_OrderOfTargetsIsPartOfFingerprint ==
    [][ret'.n = ret.n + 1 /\ Reordered(ret, ret') =>
          IF ret.op = "get_profile_data"
          THEN MissesEntryOfOtherOrder(ret, ret', profileFiles,
                                       node_profiles_fname(TargetsOf(ret)),
                                       node_profiles_fname(TargetsOf(ret')))
          ELSE MissesEntryOfOtherOrder(ret, ret', statsFiles,
                                       profile_statistics_fname(TargetsOf(ret)),
                                       profile_statistics_fname(TargetsOf(ret')))]_vars

\* get_profile_data on <<1, 2>> returned, then get_profile_data on <<2, 1>>
\* with recompute=False computed.
C15_Witness ==
    /\ Reordered(prev, ret)
    /\ ret.n = prev.n + 1
    /\ ret.op = "get_profile_data"
    /\ TargetsOf(prev) = <<1, 2>> /\ TargetsOf(ret) = <<2, 1>>
    /\ ret.computed = 1

-----------------------------------------------------------------------------
(* More claims about the all-to-all batch (SpecBatch). *)

PassRan == batch.pc # "idle" /\ batch.pass.ran

\* The file the last pass wrote holds the reduction of the profiles its
\* engine held after run(), and that engine's targets were the target of the
\* pass alone.
StoredFromOwnRun ==
    batch.pass.stored =>
        /\ Val(batch.pass.engine).targets = <<batch.pass.target>>
        /\ batchFiles[all_to_all_stats_fname(batch.pass.target)].target = batch.pass.target
        /\ batchFiles[all_to_all_stats_fname(batch.pass.target)].stats
             = __compute_profile_stats_from_profiles(Val(batch.pass.engine).stop_profiles).table

C17_EngineConstructedAndInputsReadOnce ==
    batch.pc \in {"loop", "done"} /\ batch.i > 1 =>
        /\ batch.built = 1
        /\ batch.reads.events = 1
        /\ batch.reads.transfers = 1

-----------------------------------------------------------------------------
(* More claims about the reducer (SpecReduce). *)

\* C18, as claimed: for every NaN in a table the reducer returns, a line
\* naming the observable and the stop has been printed.
C18_EveryNaNIsLogged ==
    ReducerReturned =>
        \A name \in DOMAIN ret.value : \A i \in DOMAIN ret.value[name] :
            ret.value[name][i] = "nan" =>
                \E k \in DOMAIN ret.log : ret.log[k] = <<name, nodes_stop_I[i]>>

\* C19: a table the reducer returns has one entry for each registered
\* observable name and no other, every entry has one value for each stop of
\* the node table, and the i-th value of an entry is the value of that
\* observable for the i-th stop of the node table.
C19_OneValuePerStopInNodeTableOrder ==
    ReducerReturned =>
        /\ DOMAIN ret.value = Range(profile_observable_names)
        /\ \A name \in DOMAIN ret.value :
               /\ Len(ret.value[name]) = Len(nodes_stop_I)
               /\ \A i \in DOMAIN nodes_stop_I :
                      ret.value[name][i]
                        = Measure(IF nodes_stop_I[i] \in DOMAIN ret.profile_data
                                  THEN ret.profile_data[nodes_stop_I[i]] ELSE EmptyProfile,
                                  name)

\* A returned table for a mapping whose first stop is the target, whose
\* second stop is reachable and whose last stop is missing.
C19_Witness ==
    /\ ReducerReturned
    /\ 1 \in DOMAIN ret.profile_data /\ ret.profile_data[1] = "target"
    /\ 2 \in DOMAIN ret.profile_data /\ ret.profile_data[2] = "reachable"
    /\ NumStops \notin DOMAIN ret.profile_data
    /\ ret.value["mean_trip_duration"][1] = "zero"
    /\ ret.value["mean_trip_duration"][2] = "pos"
    /\ ret.value["mean_trip_duration"][NumStops] = "+inf"

-----------------------------------------------------------------------------
(* The two layers of the cache (SpecCache). *)

\* C20: get_node_profile_statistics with recompute_profiles=True invokes the
\* profile computation and the reduction whatever recompute is and whatever
\* the directories hold; once it has returned, the profile entry of the
\* fingerprint holds the profiles this run of the engine left and the
\* statistics entry holds their reduction, which is also what is returned.
C20_RecomputeProfilesRewritesBothLayers ==
    ret.op = "get_node_profile_statistics" /\ ret.recompute_profiles =>
        /\ ret.computed = 1 /\ ret.profilesComputed = 1
        /\ ret.status = "ok" =>
               /\ exists(profileFiles, node_profiles_fname(TargetsOf(ret)))
               /\ exists(statsFiles, profile_statistics_fname(TargetsOf(ret)))
               /\ load(profileFiles, node_profiles_fname(TargetsOf(ret))).profiles
                    = Val(ret.outcome).stop_profiles
               /\ load(statsFiles, profile_statistics_fname(TargetsOf(ret)))
                    = __compute_profile_stats_from_profiles(Val(ret.outcome).stop_profiles).table
               /\ ret.value = load(statsFiles, profile_statistics_fname(TargetsOf(ret)))

\* A call with recompute=False and recompute_profiles=True on a fingerprint
\* whose two entries the call before had written, which came back with
\* other statistics.
C20_Witness ==
    /\ ret.op = "get_node_profile_statistics" /\ ret.recompute_profiles /\ ~ret.recompute
    /\ ret.status = "ok"
    /\ prev.op = "get_node_profile_statistics" /\ prev.status = "ok"
    /\ prev.targets = ret.targets
    /\ prev.value # ret.value

====
